---- MODULE Spec2Model ----
(***************************************************************************)
(* ISS proximity indicator (src/src/main.cpp): the cooperative main loop   *)
(* that interleaves the Wi-Fi link supervisor, the periodic position       *)
(* sampler, the distance classifier and the lamp driver.                   *)
(*                                                                         *)
(* Time is in milliseconds.  Angles are in centi-degrees, radians and      *)
(* trigonometric values are fixed-point numbers with SCALE units per 1.0.  *)
(* The raw millisecond counter `now` wraps at ULONG_MOD; `rt` is the       *)
(* observer's unwrapped time since power-on.                               *)
(*                                                                         *)
(* Three specifications share the actions: Spec (the host runtime may hold *)
(* the CPU between iterations, bounded horizon), SpecExact (every          *)
(* iteration takes exactly its delays, bounded horizon) and SpecLive (runs *)
(* without horizon under weak fairness of the program's steps).            *)
(***************************************************************************)
EXTENDS Integers, Sequences, FiniteSets, TLC

(***************************************************************************)
(* Program constants                                                       *)
(***************************************************************************)
VISIBLE_RADIUS == 500
SLIGHTLY_FAR_RADIUS == 1000
CHECK_ISS_INTERVAL == 30000
WIFI_CHECK_INTERVAL == 5000
BLINK_FAST == 200
BLINK_MEDIUM == 500
RECONNECT_BUDGET == 10000
POLL_DELAY == 500
LOOP_DELAY == 10
EARTH_RADIUS == 6371
HTTP_CODE_OK == 200

LOW == 0
HIGH == 1

WL_CONNECTED == "WL_CONNECTED"
WL_DISCONNECTED == "WL_DISCONNECTED"

(***************************************************************************)
(* Bounds of the model                                                     *)
(***************************************************************************)
\* width of the millisecond counter (unsigned long) in the model
ULONG_BITS == 17
\* horizon, in ms after the first loop iteration, of runs with exact timing
MaxElapsedExact == 7000
\* horizon of runs in which the host runtime may hold the CPU between iterations
MaxElapsed == 66000
\* number of loop iterations of a run in which the host may hold the CPU
MaxIter == 2
\* number of times the link goes down in a run
MaxLinkDrops == 1
\* a window counts as long when it spans this many blink periods
LongWindow == 10
\* in runs without horizon the host runtime returns to loop() at multiples of
\* 2 ^ HostAlignBits ms
HostAlignBits == 16

ULONG_MOD == 2 ^ ULONG_BITS

\* time spent in setup() before the first loop iteration
BootTimes == {500, CHECK_ISS_INTERVAL, ULONG_MOD - 1000}
\* time the host runtime keeps the CPU between two loop iterations
HostTimes == {0, 4990, 19990, 29990}
\* time an HTTP GET blocks
HttpTimes == {100, 5000}
\* a link that is down comes back after one of these numbers of waits
RecoveryPolls == {0, 1, 19, 20}
\* the grid of the host runtime in runs without horizon
HostAlign == 2 ^ HostAlignBits

(***************************************************************************)
(* Unsigned arithmetic on the millisecond counter                          *)
(***************************************************************************)
ULong(x) == x % ULONG_MOD

\* the difference without the reduction modulo the counter's width
ElapsedNoWrap(a, b) == a - b

\* a - b in unsigned long arithmetic
Elapsed(a, b) == ULong(a - b)

\* the time from t to the next point of the host runtime's grid
ToGrid(t) == (HostAlign - (t % HostAlign)) % HostAlign

(***************************************************************************)
(* Fixed-point mathematics standing for the double arithmetic of the code  *)
(***************************************************************************)
SCALE == 10000
PI_FIXED == 31416
HALF_PI_FIXED == 15708

Abs(x) == IF x < 0 THEN -x ELSE x

\* truncating division, as conversion of a double towards zero
Quot(x, y) == IF x < 0 THEN -((-x) \div y) ELSE x \div y

\* deg * (PI / 180.0), from centi-degrees to radians
deg2rad(deg) == Quot(deg * 17453, SCALE)

\* sine of 0 <= x <= pi/2 by its Taylor polynomial of degree 9
SinQuadrant(x) ==
  LET x2 == (x * x) \div SCALE
      t3 == ((x * x2) \div SCALE) \div 6
      t5 == ((t3 * x2) \div SCALE) \div 20
      t7 == ((t5 * x2) \div SCALE) \div 42
      t9 == ((t7 * x2) \div SCALE) \div 72
  IN  x - t3 + t5 - t7 + t9

\* sin(x) for -pi <= x <= pi
sin(x) ==
  LET ax == Abs(x)
      r  == IF ax <= HALF_PI_FIXED THEN ax ELSE PI_FIXED - ax
      v  == SinQuadrant(IF r < 0 THEN 0 ELSE r)
  IN  IF x < 0 THEN -v ELSE v

\* cos(x) for -pi/2 <= x <= pi/2
cos(x) == sin(HALF_PI_FIXED - Abs(x))

\* integer square root of n, 0 <= n <= SCALE * SCALE, scaled: sqrt(n / SCALE^2) * SCALE
RECURSIVE SqrtSearch(_, _, _)
SqrtSearch(n, lo, hi) ==
  IF lo >= hi THEN lo
  ELSE LET mid == (lo + hi + 1) \div 2
       IN  IF mid * mid <= n THEN SqrtSearch(n, mid, hi)
           ELSE SqrtSearch(n, lo, mid - 1)

sqrt(n) == SqrtSearch(n, 0, SCALE)

\* atan2(y, x) for y >= 0, x >= 0: the angle phi in [0, pi/2] with tan(phi) = y / x
RECURSIVE AtanSearch(_, _, _, _)
AtanSearch(y, x, lo, hi) ==
  IF lo >= hi THEN lo
  ELSE LET mid == (lo + hi + 1) \div 2
       IN  IF sin(mid) * x <= y * cos(mid) THEN AtanSearch(y, x, mid, hi)
           ELSE AtanSearch(y, x, lo, mid - 1)

atan2(y, x) == AtanSearch(y, x, 0, HALF_PI_FIXED)

\* the longitude delta as the code computes it (main.cpp:40)
dLonOf(lat1, lon1, lat2, lon2) == lat2 - lon1

\* great-circle distance in km (truncated), arguments in centi-degrees
haversine(lat1, lon1, lat2, lon2) ==
  LET dLat == deg2rad(lat2 - lat1)
      dLon == deg2rad(dLonOf(lat1, lon1, lat2, lon2))
      rl1  == deg2rad(lat1)
      rl2  == deg2rad(lat2)
      sLat == sin(Quot(dLat, 2))
      sLon == sin(Quot(dLon, 2))
      a    == sLat * sLat
              + Quot(sLon * cos(rl1), SCALE) * Quot(sLon * cos(rl2), SCALE)
      c    == 2 * atan2(sqrt(a), sqrt(SCALE * SCALE - a))
  IN  (EARTH_RADIUS * c) \div SCALE

(***************************************************************************)
(* Inputs                                                                  *)
(***************************************************************************)
\* home coordinates <<MY_LAT, MY_LON>> of credentials.h, centi-degrees
Homes == {<<1000, 1000>>, <<5252, 1341>>}

\* sub-satellite points the endpoint may report, centi-degrees
Positions == {<<1000, 1000>>, <<678, 1200>>, <<677, 1200>>, <<360, 1700>>,
              <<359, 1700>>, <<5252, 1341>>}

\* a JSON value of iss_position: a number (or numeric string), a string that
\* is no number, or absent
Num(v) == [kind |-> "num", val |-> v]
Text == [kind |-> "text", val |-> 0]
Missing == [kind |-> "missing", val |-> 0]

\* variant.as<double>() of ArduinoJson: 0.0 unless the value is numeric
AsDouble(field) == IF field.kind = "num" THEN field.val ELSE 0

NoResp == [code |-> 0, json |-> "none", latitude |-> Missing, longitude |-> Missing]

Failure(code) == [code |-> code, json |-> "none", latitude |-> Missing, longitude |-> Missing]

Document(lat, lon) == [code |-> HTTP_CODE_OK, json |-> "object", latitude |-> lat, longitude |-> lon]

\* outcomes of http.GET() followed by http.getString()
Responses ==
  {Failure(503), Failure(404), Failure(-1), Failure(-11)}
    \cup {[code |-> HTTP_CODE_OK, json |-> "malformed", latitude |-> Missing, longitude |-> Missing]}
    \cup {Document(Num(p[1]), Num(p[2])) : p \in Positions}
    \cup {Document(Missing, Num(1000)), Document(Num(1000), Text), Document(Text, Missing)}

(***************************************************************************)
(* State                                                                   *)
(***************************************************************************)
VARIABLES
  pc,               \* position of the program in loop()
  now,              \* millis(): the wrapping millisecond counter
  wifi,             \* WiFi.status()
  home,             \* <<MY_LAT, MY_LON>>
  lastISSCheck, lastWiFiCheck, lastLEDUpdate, currentLEDState, ledMode,
  red, green, blue, \* levels of the three output pins
  currentMillis,    \* local of loop()
  startAttempt,     \* local of ensureWiFiConnected()
  resp,             \* response received by checkISSPosition() in this iteration
  dist,             \* local of checkISSPosition(), -1 while not computed
  \* observers
  exact,            \* TRUE: the host runtime takes no time between iterations
  live,             \* TRUE: a run without horizon, unwrapped time is not observed
  boot,             \* unwrapped time at which loop() first ran
  rt,               \* unwrapped time since power-on
  iter,             \* iterations completed (counted when ~exact)
  drops,            \* times the link went down
  rtCur,            \* unwrapped time at which currentMillis was read
  modeBefore,       \* ledMode at the start of the iteration
  attempt,          \* what the sampler did in this iteration: "none", "nolink", "get"
  entryLink,        \* link status read on entry of ensureWiFiConnected()
  exitLink,         \* link status read when the wait loop ended
  begins,           \* calls of WiFi.begin() in this iteration
  polls,            \* calls of delay(500) in this iteration
  gWiFi, gISS, gLED,\* unwrapped times of the last link check, sample, blink advance
  lastGetAt,        \* unwrapped time at which the last GET was issued, -1 if none
  lastGetCur,       \* rtCur of the iteration that issued the last GET
  prevGetAt,        \* lastGetAt and lastGetCur of the GET before the last
  prevGetCur,
  sampled,          \* a response has reached the classifier since boot
  winStart,         \* unwrapped time at which ledMode last changed
  winToggles        \* level changes of the blinking output since winStart

fixedVars == <<home, exact, live, boot>>
clockVars == <<now, rt>>
lampVars == <<lastLEDUpdate, currentLEDState, red, green, blue, gLED>>
wifiSched == <<lastWiFiCheck, gWiFi>>
issSched == <<lastISSCheck, gISS>>
getVars == <<lastGetAt, lastGetCur, prevGetAt, prevGetCur, sampled>>
linkObs == <<entryLink, exitLink, begins, polls>>
iterObs == <<modeBefore, attempt, resp, dist>>
winVars == <<winStart, winToggles>>

vars == <<pc, wifi, drops, ledMode, currentMillis, rtCur, startAttempt, iter,
          fixedVars, clockVars, lampVars, wifiSched, issSched, getVars, linkObs,
          iterObs, winVars>>

(***************************************************************************)
(* Init: the globals of main.cpp:27-31 after setup() has returned          *)
(***************************************************************************)
InitGlobals ==
  /\ pc = "loop"
  /\ rt = boot
  /\ now = ULong(boot)
  /\ wifi = WL_CONNECTED
  /\ home \in Homes
  /\ lastISSCheck = 0
  /\ lastWiFiCheck = 0
  /\ lastLEDUpdate = 0
  /\ currentLEDState = 0
  /\ ledMode = 0
  /\ red = LOW /\ green = LOW /\ blue = LOW
  /\ currentMillis = 0
  /\ startAttempt = 0
  /\ resp = NoResp
  /\ dist = -1
  /\ iter = 0
  /\ drops = 0
  /\ rtCur = boot
  /\ modeBefore = 0
  /\ attempt = "none"
  /\ entryLink = "none"
  /\ exitLink = "none"
  /\ begins = 0
  /\ polls = 0
  /\ gWiFi = 0 /\ gISS = 0 /\ gLED = 0
  /\ lastGetAt = -1 /\ lastGetCur = -1
  /\ prevGetAt = -1 /\ prevGetCur = -1
  /\ sampled = FALSE
  /\ winStart = boot
  /\ winToggles = 0

\* the host runtime may hold the CPU between iterations; setup() took any of BootTimes
Init ==
  /\ exact = FALSE
  /\ live = FALSE
  /\ boot \in BootTimes
  /\ InitGlobals

\* a run without horizon: the host runtime returns to loop() on its grid
InitLive ==
  /\ exact = FALSE
  /\ live = TRUE
  /\ boot = POLL_DELAY
  /\ InitGlobals

\* every delay takes exactly its argument; the first sample is due at once
InitExact ==
  /\ exact = TRUE
  /\ live = FALSE
  /\ boot = CHECK_ISS_INTERVAL
  /\ InitGlobals

(***************************************************************************)
(* Lamp driver: updateLEDs(), main.cpp:73-111                              *)
(***************************************************************************)
Lamp == [red |-> red, green |-> green, blue |-> blue,
         currentLEDState |-> currentLEDState, lastLEDUpdate |-> lastLEDUpdate]

\* case 0: all LEDs off
LampOff(l) == [l EXCEPT !.red = LOW, !.green = LOW, !.blue = LOW]

\* case 1 without the write of the green pin
LampFarKeepGreen(l) == [l EXCEPT !.red = HIGH, !.blue = LOW]

\* case 1 with an inversion of the blink phase
LampFarPhase(l) ==
  [l EXCEPT !.red = HIGH, !.green = LOW, !.blue = LOW, !.currentLEDState = 1 - @]

\* case 1: steady red
LampFar(l) == [l EXCEPT !.red = HIGH, !.green = LOW, !.blue = LOW]

\* a blink advance that does not record the time of the advance
BlinkAdvanceKeepTime(l, t) == [l EXCEPT !.currentLEDState = 1 - @]

\* the blink advance of cases 2 and 3: lastLEDUpdate and currentLEDState
BlinkAdvance(l, t) == [l EXCEPT !.lastLEDUpdate = t, !.currentLEDState = 1 - @]

\* case 2 with the fast period
LampApproachingFast(l, t) ==
  LET forced == [l EXCEPT !.red = LOW, !.green = LOW]
  IN  IF Elapsed(t, l.lastLEDUpdate) >= BLINK_FAST
      THEN LET adv == BlinkAdvance(forced, t)
           IN  [adv EXCEPT !.blue = adv.currentLEDState]
      ELSE forced

\* case 2: blinking blue
LampApproaching(l, t) ==
  LET forced == [l EXCEPT !.red = LOW, !.green = LOW]
  IN  IF Elapsed(t, l.lastLEDUpdate) >= BLINK_MEDIUM
      THEN LET adv == BlinkAdvance(forced, t)
           IN  [adv EXCEPT !.blue = adv.currentLEDState]
      ELSE forced

\* case 3 without the write of the red pin
LampNearKeepRed(l, t) ==
  LET forced == [l EXCEPT !.blue = LOW]
  IN  IF Elapsed(t, l.lastLEDUpdate) >= BLINK_FAST
      THEN LET adv == BlinkAdvance(forced, t)
           IN  [adv EXCEPT !.green = adv.currentLEDState]
      ELSE forced

\* case 3 writing the inverse of the phase to the green pin
LampNearInverted(l, t) ==
  LET forced == [l EXCEPT !.red = LOW, !.blue = LOW]
  IN  IF Elapsed(t, l.lastLEDUpdate) >= BLINK_FAST
      THEN LET adv == BlinkAdvance(forced, t)
           IN  [adv EXCEPT !.green = 1 - adv.currentLEDState]
      ELSE forced

\* case 3: fast blinking green
LampNear(l, t) ==
  LET forced == [l EXCEPT !.red = LOW, !.blue = LOW]
  IN  IF Elapsed(t, l.lastLEDUpdate) >= BLINK_FAST
      THEN LET adv == BlinkAdvance(forced, t)
           IN  [adv EXCEPT !.green = adv.currentLEDState]
      ELSE forced

\* the lamp state after updateLEDs() has run with millis() = t
updateLEDs(mode, t, l) ==
  CASE mode = 0 -> LampOff(l)
    [] mode = 1 -> LampFar(l)
    [] mode = 2 -> LampApproaching(l, t)
    [] mode = 3 -> LampNear(l, t)
    [] OTHER -> l

\* the output that blinks in a mode
Blinker(mode, l) == IF mode = 2 THEN l.blue ELSE IF mode = 3 THEN l.green ELSE LOW

(***************************************************************************)
(* Position sampler and classifier: checkISSPosition(), main.cpp:114-165   *)
(***************************************************************************)
\* httpCode == HTTP_CODE_OK and deserializeJson() reported no error
Parsed(r) == r.code = HTTP_CODE_OK /\ r.json = "object"

\* dist = haversine(MY_LAT, MY_LON, issLat, issLon)
DistanceOf(r, h) == haversine(h[1], h[2], AsDouble(r.latitude), AsDouble(r.longitude))

\* the classifier with strict comparisons
ClassifyStrict(d) ==
  IF d < VISIBLE_RADIUS THEN 3
  ELSE IF d < SLIGHTLY_FAR_RADIUS THEN 2
  ELSE 1

\* a classifier that switches the lamps off beyond the slightly-far radius
ClassifyFarOff(d) ==
  IF d <= VISIBLE_RADIUS THEN 3
  ELSE IF d <= SLIGHTLY_FAR_RADIUS THEN 2
  ELSE 0

\* the mode the distance selects: 3 near, 2 approaching, 1 far
Classify(d) ==
  IF d <= VISIBLE_RADIUS THEN 3
  ELSE IF d <= SLIGHTLY_FAR_RADIUS THEN 2
  ELSE 1

\* the distance computed for each response, -1 where none is computed
Distances == [h \in Homes |-> [r \in Responses |-> IF Parsed(r) THEN DistanceOf(r, h) ELSE -1]]

\* a sampler that blanks the mode when the request fails
ModeAfterResponseBlank(r, mode, h) == IF Parsed(r) THEN Classify(Distances[h][r]) ELSE 0

\* a sampler that classifies only while the mode is OFF
ModeAfterResponseLatch(r, mode, h) ==
  IF Parsed(r) /\ mode = 0 THEN Classify(Distances[h][r]) ELSE mode

\* a sampler that shows FAR when the request fails
ModeAfterResponseFar(r, mode, h) == IF Parsed(r) THEN Classify(Distances[h][r]) ELSE 1

\* ledMode after checkISSPosition() has handled response r
ModeAfterResponse(r, mode, h) == IF Parsed(r) THEN Classify(Distances[h][r]) ELSE mode

(***************************************************************************)
(* Actions of loop(), main.cpp:189-209                                     *)
(***************************************************************************)
\* the observer's unwrapped time d ms after t; it stands still in a run
\* without horizon
Later(t, d) == IF live THEN t ELSE t + d

\* the times the host runtime may keep the CPU after delay(10) returned at t
HostHold(t) ==
  IF live THEN {ToGrid(t)} ELSE IF exact THEN {0} ELSE HostTimes

\* line 193: the link check is due
LinkCheckDue(t, last) == Elapsed(t, last) >= WIFI_CHECK_INTERVAL

\* the sample test with the period of the link check
SampleDueLinkPeriod(t, last) == Elapsed(t, last) >= WIFI_CHECK_INTERVAL

\* line 199: the sample is due
SampleDue(t, last) == Elapsed(t, last) >= CHECK_ISS_INTERVAL

\* the wait loop with an inclusive budget test
ReconnectPendingInclusive(status, t, start) ==
  status # WL_CONNECTED /\ Elapsed(t, start) <= RECONNECT_BUDGET

\* line 59: the wait loop goes on
ReconnectPending(status, t, start) ==
  status # WL_CONNECTED /\ Elapsed(t, start) < RECONNECT_BUDGET

\* a scheduler that moves the link check's deadline on by one period, so that
\* periods missed while the loop was blocked are run one after the other
LoopCheckWiFiCatchUp ==
  /\ pc = "loop"
  /\ currentMillis' = now
  /\ rtCur' = rt
  /\ IF LinkCheckDue(now, lastWiFiCheck)
     THEN /\ lastWiFiCheck' = ULong(lastWiFiCheck + WIFI_CHECK_INTERVAL)
          /\ gWiFi' = rt
          /\ pc' = "ensure"
     ELSE /\ UNCHANGED wifiSched
          /\ pc' = "isscheck"
  /\ UNCHANGED <<wifi, drops, ledMode, startAttempt, iter, fixedVars, clockVars,
                 lampVars, issSched, getVars, linkObs, iterObs, winVars>>

\* line 190 and the link check test of lines 193-194
LoopCheckWiFi ==
  /\ pc = "loop"
  /\ currentMillis' = now
  /\ rtCur' = rt
  /\ IF LinkCheckDue(now, lastWiFiCheck)
     THEN /\ lastWiFiCheck' = now
          /\ gWiFi' = rt
          /\ pc' = "ensure"
     ELSE /\ UNCHANGED wifiSched
          /\ pc' = "isscheck"
  /\ UNCHANGED <<wifi, drops, ledMode, startAttempt, iter, fixedVars, clockVars,
                 lampVars, issSched, getVars, linkObs, iterObs, winVars>>

\* ensureWiFiConnected(), lines 53-58: return if connected, else WiFi.begin()
EnsureWiFiConnected ==
  /\ pc = "ensure"
  /\ entryLink' = wifi
  /\ IF wifi = WL_CONNECTED
     THEN /\ pc' = "isscheck"
          /\ UNCHANGED <<begins, startAttempt>>
     ELSE /\ begins' = begins + 1
          /\ startAttempt' = now
          /\ pc' = "poll"
  /\ UNCHANGED <<wifi, drops, ledMode, currentMillis, rtCur, iter, exitLink, polls,
                 fixedVars, clockVars, lampVars, wifiSched, issSched, getVars,
                 iterObs, winVars>>

\* lines 59-62: one round of the wait loop, delay(500)
ReconnectWait ==
  /\ pc = "poll"
  /\ ReconnectPending(wifi, now, startAttempt)
  /\ now' = ULong(now + POLL_DELAY)
  /\ rt' = Later(rt, POLL_DELAY)
  /\ polls' = polls + 1
  /\ UNCHANGED <<pc, wifi, drops, ledMode, currentMillis, rtCur, startAttempt, iter,
                 entryLink, exitLink, begins, fixedVars, lampVars, wifiSched,
                 issSched, getVars, iterObs, winVars>>

\* a supervisor that halts when the reconnection timed out
ReconnectDoneOrHalt ==
  /\ pc = "poll"
  /\ wifi = WL_CONNECTED
  /\ exitLink' = wifi
  /\ pc' = "isscheck"
  /\ UNCHANGED <<wifi, drops, ledMode, currentMillis, rtCur, startAttempt, iter,
                 entryLink, begins, polls, fixedVars, clockVars, lampVars,
                 wifiSched, issSched, getVars, iterObs, winVars>>

\* lines 59 and 64-69: the wait loop ends, connected or timed out
ReconnectDone ==
  /\ pc = "poll"
  /\ ~ReconnectPending(wifi, now, startAttempt)
  /\ exitLink' = wifi
  /\ pc' = "isscheck"
  /\ UNCHANGED <<wifi, drops, ledMode, currentMillis, rtCur, startAttempt, iter,
                 entryLink, begins, polls, fixedVars, clockVars, lampVars,
                 wifiSched, issSched, getVars, iterObs, winVars>>

\* line 199: the sample is not due
SkipISSCheck ==
  /\ pc = "isscheck"
  /\ ~SampleDue(currentMillis, lastISSCheck)
  /\ pc' = "leds"
  /\ UNCHANGED <<wifi, drops, ledMode, currentMillis, rtCur, startAttempt, iter,
                 fixedVars, clockVars, lampVars, wifiSched, issSched, getVars,
                 linkObs, iterObs, winVars>>

\* a scheduler that leaves lastISSCheck alone when the link is down
CheckISSNoLinkRetry ==
  /\ pc = "isscheck"
  /\ SampleDue(currentMillis, lastISSCheck)
  /\ wifi # WL_CONNECTED
  /\ attempt' = "nolink"
  /\ pc' = "leds"
  /\ UNCHANGED <<wifi, drops, ledMode, currentMillis, rtCur, startAttempt, iter,
                 modeBefore, resp, dist, fixedVars, clockVars, lampVars, wifiSched,
                 issSched, getVars, linkObs, winVars>>

\* lines 199-201 and 115, 163: the sample is due and the link is down
CheckISSNoLink ==
  /\ pc = "isscheck"
  /\ SampleDue(currentMillis, lastISSCheck)
  /\ wifi # WL_CONNECTED
  /\ lastISSCheck' = currentMillis
  /\ gISS' = rtCur
  /\ attempt' = "nolink"
  /\ pc' = "leds"
  /\ UNCHANGED <<wifi, drops, ledMode, currentMillis, rtCur, startAttempt, iter,
                 modeBefore, resp, dist, fixedVars, clockVars, lampVars, wifiSched,
                 getVars, linkObs, winVars>>

\* lines 199-201 and 115-161: the sample is due, one GET, its response handled
CheckISSPosition ==
  /\ pc = "isscheck"
  /\ SampleDue(currentMillis, lastISSCheck)
  /\ wifi = WL_CONNECTED
  /\ lastISSCheck' = currentMillis
  /\ gISS' = rtCur
  /\ attempt' = "get"
  /\ lastGetAt' = rt /\ lastGetCur' = rtCur
  /\ prevGetAt' = lastGetAt /\ prevGetCur' = lastGetCur
  /\ \E r \in Responses, d \in HttpTimes :
       /\ resp' = r
       /\ sampled' = (sampled \/ Parsed(r))
       /\ now' = ULong(now + d)
       /\ rt' = Later(rt, d)
       /\ dist' = Distances[home][r]
       /\ ledMode' = ModeAfterResponse(r, ledMode, home)
       /\ IF ledMode' # ledMode
          THEN winStart' = Later(rt, d) /\ winToggles' = 0
          ELSE UNCHANGED winVars
  /\ pc' = "leds"
  /\ UNCHANGED <<wifi, drops, currentMillis, rtCur, startAttempt, iter, modeBefore,
                 fixedVars, lampVars, wifiSched, linkObs>>

\* line 205: updateLEDs()
UpdateLEDs ==
  /\ pc = "leds"
  /\ LET l == updateLEDs(ledMode, now, Lamp)
     IN  /\ red' = l.red /\ green' = l.green /\ blue' = l.blue
         /\ currentLEDState' = l.currentLEDState
         /\ lastLEDUpdate' = l.lastLEDUpdate
         /\ gLED' = IF l.currentLEDState # currentLEDState THEN rt ELSE gLED
         /\ winToggles' = IF ~live /\ Blinker(ledMode, l) # Blinker(ledMode, Lamp)
                          THEN winToggles + 1 ELSE winToggles
  /\ pc' = "delay"
  /\ UNCHANGED <<wifi, drops, ledMode, currentMillis, rtCur, startAttempt, iter,
                 winStart, fixedVars, clockVars, wifiSched, issSched, getVars,
                 linkObs, iterObs>>

\* line 208 and the return to the host runtime
LoopDelay ==
  /\ pc = "delay"
  /\ \E h \in HostHold(now + LOOP_DELAY) :
       /\ \/ live
          \/ ~live /\ exact /\ rt - boot < MaxElapsedExact
          \/ ~live /\ ~exact /\ iter < MaxIter
               /\ rt - boot + LOOP_DELAY + h <= MaxElapsed
       /\ now' = ULong(now + LOOP_DELAY + h)
       /\ rt' = Later(rt, LOOP_DELAY + h)
  /\ iter' = IF exact \/ live THEN iter ELSE iter + 1
  /\ modeBefore' = ledMode
  /\ attempt' = "none"
  /\ resp' = NoResp
  /\ dist' = -1
  /\ entryLink' = "none" /\ exitLink' = "none" /\ begins' = 0 /\ polls' = 0
  /\ pc' = "loop"
  /\ UNCHANGED <<wifi, drops, ledMode, currentMillis, rtCur, startAttempt,
                 fixedVars, lampVars, wifiSched, issSched, getVars, winVars>>

(***************************************************************************)
(* Environment: the link goes down or comes up; the program observes it    *)
(* only where it reads WiFi.status()                                       *)
(***************************************************************************)
LinkChange ==
  /\ pc \in {"ensure", "poll", "isscheck"}
  /\ IF wifi = WL_CONNECTED
     THEN /\ drops < MaxLinkDrops
          /\ wifi' = WL_DISCONNECTED
          /\ drops' = drops + 1
     ELSE /\ pc = "poll" => polls \in RecoveryPolls
          /\ wifi' = WL_CONNECTED
          /\ drops' = drops
  /\ UNCHANGED <<pc, ledMode, currentMillis, rtCur, startAttempt, iter, fixedVars,
                 clockVars, lampVars, wifiSched, issSched, getVars, linkObs,
                 iterObs, winVars>>

Next ==
  \/ LoopCheckWiFi
  \/ EnsureWiFiConnected
  \/ ReconnectWait
  \/ ReconnectDone
  \/ SkipISSCheck
  \/ CheckISSNoLink
  \/ CheckISSPosition
  \/ UpdateLEDs
  \/ LoopDelay
  \/ LinkChange

Spec == Init /\ [][Next]_vars

SpecExact == InitExact /\ [][Next]_vars

\* a step of the program; the link changes are the environment's
ProgramStep ==
  \/ LoopCheckWiFi
  \/ EnsureWiFiConnected
  \/ ReconnectWait
  \/ ReconnectDone
  \/ SkipISSCheck
  \/ CheckISSNoLink
  \/ CheckISSPosition
  \/ UpdateLEDs
  \/ LoopDelay

\* the processor keeps executing: delay() and http.GET() return, and the host
\* runtime calls loop() again
SpecLive == InitLive /\ [][Next]_vars /\ WF_vars(ProgramStep)

TypeOK ==
  /\ pc \in {"loop", "ensure", "poll", "isscheck", "leds", "delay"}
  /\ now \in 0..(ULONG_MOD - 1)
  /\ ~live => now = ULong(rt)
  /\ wifi \in {WL_CONNECTED, WL_DISCONNECTED}
  /\ ledMode \in 0..3
  /\ currentLEDState \in {0, 1}
  /\ red \in {LOW, HIGH} /\ green \in {LOW, HIGH} /\ blue \in {LOW, HIGH}
  /\ lastISSCheck \in 0..(ULONG_MOD - 1)
  /\ lastWiFiCheck \in 0..(ULONG_MOD - 1)
  /\ lastLEDUpdate \in 0..(ULONG_MOD - 1)

(***************************************************************************)
(* Properties                                                              *)
(***************************************************************************)
\* the outputs the mode requires to be low are low
LampExclusive ==
  /\ ledMode = 3 => red = LOW /\ blue = LOW
  /\ ledMode = 2 => red = LOW /\ green = LOW
  /\ ledMode = 1 => green = LOW /\ blue = LOW
  /\ ledMode = 0 => red = LOW /\ green = LOW /\ blue = LOW

\* the program is past the sampler of the current iteration
AfterSampler == pc \in {"leds", "delay"}

\* the sample of this iteration ended in one of: link down, HTTP status other
\* than 200, transport error, JSON decode failure
SampleFailed ==
  /\ AfterSampler
  /\ \/ attempt = "nolink"
     \/ attempt = "get" /\ resp.code # HTTP_CODE_OK
     \/ attempt = "get" /\ resp.code = HTTP_CODE_OK /\ resp.json = "malformed"

\* the response of this iteration decoded but a required field is absent or no number
FieldError ==
  /\ AfterSampler
  /\ attempt = "get" /\ resp.code = HTTP_CODE_OK /\ resp.json = "object"
  /\ resp.latitude.kind # "num" \/ resp.longitude.kind # "num"

\* C1 as stated: in every reachable state the outputs that the mode register
\* forbids are low (NEAR: red, blue; APPROACHING: red, green; FAR: green, blue;
\* OFF: all three).
C1_LampExclusivityAlways == LampExclusive

\* C1 amended: the outputs that the mode register forbids are low in every
\* state except between the classifier's write of a new mode and the lamp tick
\* of the same iteration.
C1_LampExclusivityAfterTick ==
  ~(pc = "leds" /\ ledMode # modeBefore) => LampExclusive

\* the mode went from FAR to NEAR and the tick has taken red down
C1_Witness ==
  pc = "delay" /\ modeBefore = 1 /\ ledMode = 3 /\ red = LOW /\ blue = LOW

\* C2: an iteration whose sample ends in an error (link down, HTTP status other
\* than 200, transport error, JSON decode failure) leaves the mode as it was
\* before the iteration.
C2_ModePersistsOnFailure == SampleFailed => ledMode = modeBefore

\* a 503 after NEAR: the mode is still NEAR
C2_Witness ==
  pc = "delay" /\ SampleFailed /\ resp.code = 503 /\ ledMode = 3

\* C3: a 200 response whose body decodes but lacks latitude or longitude, or
\* carries a non-numeric value there, yields no distance and leaves the mode
\* unchanged.
C3_FieldErrorKeepsMode == FieldError => dist = -1 /\ ledMode = modeBefore

\* C4: a sample with computed distance d sets NEAR if d <= visible radius,
\* APPROACHING if visible radius < d <= slightly-far radius, FAR otherwise, and
\* never OFF.
C4_Classification ==
  (AfterSampler /\ attempt = "get" /\ dist >= 0) =>
    /\ dist <= VISIBLE_RADIUS => ledMode = 3
    /\ (VISIBLE_RADIUS < dist /\ dist <= SLIGHTLY_FAR_RADIUS) => ledMode = 2
    /\ dist > SLIGHTLY_FAR_RADIUS => ledMode = 1
    /\ ledMode # 0

\* a distance equal to the visible radius was classified
C4_Witness ==
  AfterSampler /\ attempt = "get" /\ dist = VISIBLE_RADIUS /\ ledMode = 3

\* C5: at the end of an iteration in which a sample succeeded the outputs
\* conform to the mode it assigned (FAR: red high, green and blue low;
\* APPROACHING: red and green low; NEAR: red and blue low).
C5_LampsFollowSample ==
  (pc = "delay" /\ attempt = "get" /\ Parsed(resp)) =>
    /\ ledMode \in {1, 2, 3}
    /\ ledMode = 1 => red = HIGH /\ green = LOW /\ blue = LOW
    /\ ledMode = 2 => red = LOW /\ green = LOW
    /\ ledMode = 3 => red = LOW /\ blue = LOW

\* a sample moved the mode from NEAR to FAR and the same iteration shows it
C5_Witness ==
  /\ pc = "delay" /\ attempt = "get" /\ Parsed(resp)
  /\ modeBefore = 3 /\ ledMode = 1 /\ red = HIGH /\ green = LOW

\* the blink period of a blinking mode
BlinkPeriod(mode) == IF mode = 2 THEN BLINK_MEDIUM ELSE BLINK_FAST

\* the time for which the mode register has held its value
Window == rt - winStart

C7_WraparoundRobust ==
  /\ pc # "loop" => rtCur - gWiFi < WIFI_CHECK_INTERVAL
  /\ pc \in {"leds", "delay"} => rtCur - gISS < CHECK_ISS_INTERVAL
  /\ (pc = "delay" /\ ledMode \in {2, 3} /\ rt - gLED < ULONG_MOD) =>
       rt - gLED < BlinkPeriod(ledMode)

\* the counter wrapped and the link check, the sample and the blink advance
\* have all run after the wrap
C7_Witness ==
  /\ boot = ULONG_MOD - 1000 /\ pc = "delay"
  /\ gWiFi >= ULONG_MOD /\ gISS >= ULONG_MOD /\ gLED >= ULONG_MOD
  /\ lastWiFiCheck < boot /\ lastISSCheck < boot /\ lastLEDUpdate < boot

\* C8 as stated: two consecutive GETs are issued at least the sample period
\* apart.
C8_RequestSpacing ==
  prevGetAt # -1 => lastGetAt - prevGetAt >= CHECK_ISS_INTERVAL

\* C8 amended: the iterations that issue two consecutive GETs start at least
\* the sample period apart; the GETs themselves are issued at least the sample
\* period less the reconnect budget apart.
C8_RequestSpacingLessReconnect ==
  prevGetAt # -1 =>
    /\ lastGetCur - prevGetCur >= CHECK_ISS_INTERVAL
    /\ lastGetAt - prevGetAt >= CHECK_ISS_INTERVAL - RECONNECT_BUDGET

\* a reconnect delayed a GET and the next GET came less than a period later
C8_Witness ==
  /\ prevGetAt # -1 /\ prevGetAt > prevGetCur
  /\ lastGetAt - prevGetAt < CHECK_ISS_INTERVAL

\* what a call of the link supervisor has done so far
LinkSupervisorBounded ==
  /\ entryLink = WL_CONNECTED =>
       begins = 0 /\ polls = 0 /\ (pc = "isscheck" => rt = rtCur)
  /\ entryLink = WL_DISCONNECTED => begins = 1
  /\ polls <= RECONNECT_BUDGET \div POLL_DELAY
  /\ pc \in {"poll", "isscheck"} =>
       rt - rtCur = polls * POLL_DELAY /\ rt - rtCur <= RECONNECT_BUDGET
  /\ exitLink # "none" =>
       exitLink = WL_CONNECTED \/ polls = RECONNECT_BUDGET \div POLL_DELAY

\* C9: the link supervisor returns at once, starting no reconnection, when the
\* link is up; otherwise it starts one reconnection, waits in steps of 500 ms
\* and returns when the link is up or after 10 s (20 waits), and it never
\* waits while the link is up.
C9_LinkSupervisor ==
  /\ []LinkSupervisorBounded
  /\ [][(pc = "poll" /\ wifi = WL_CONNECTED) => (polls' = polls /\ rt' = rt)]_vars

\* a reconnection that timed out after 20 waits
C9_Witness ==
  /\ pc = "isscheck" /\ entryLink = WL_DISCONNECTED /\ exitLink = WL_DISCONNECTED
  /\ begins = 1 /\ polls = 20 /\ rt - rtCur = RECONNECT_BUDGET

\* C10: after the lamp tick has run at clock value t, a second run at the same
\* t with the same mode changes no output, nor the blink phase, nor
\* lastLEDUpdate.
C10_TickIdempotent ==
  pc = "delay" => updateLEDs(ledMode, now, Lamp) = Lamp

\* the tick has just advanced the blink phase in APPROACHING
C10_Witness ==
  pc = "delay" /\ ledMode = 2 /\ lastLEDUpdate = now /\ blue = HIGH

\* the response of this iteration decoded and carries both coordinates
WellFormed(r) ==
  Parsed(r) /\ r.latitude.kind = "num" /\ r.longitude.kind = "num"

C12_LongitudeDelta ==
  (AfterSampler /\ attempt = "get" /\ WellFormed(resp)) =>
    dLonOf(home[1], home[2], resp.latitude.val, resp.longitude.val)
      = resp.longitude.val - home[2]

\* C13: a sample equal to the home coordinate has distance 0 and is classified
\* NEAR.
C13_ZeroAtHome ==
  (AfterSampler /\ attempt = "get" /\ WellFormed(resp)
     /\ <<resp.latitude.val, resp.longitude.val>> = home) =>
    dist = 0 /\ ledMode = 3

\* C14: every loop iteration that starts reaches the lamp tick and finishes it,
\* whatever the link does and whatever the reconnection and the request
\* return, and the lamp tick runs infinitely often, also when the link never
\* comes back.
C14_NoFatalError ==
  /\ (pc = "loop") ~> (pc = "leds")
  /\ (pc = "leds") ~> (pc = "delay")
  /\ []<>(pc = "leds")

\* the reconnection timed out, the sample found no link, and the tick has run
C14_Witness ==
  /\ live /\ pc = "delay" /\ wifi = WL_DISCONNECTED
  /\ exitLink = WL_DISCONNECTED /\ polls = RECONNECT_BUDGET \div POLL_DELAY
  /\ attempt = "nolink"

\* the link is up and the request of this iteration, if any, returned a
\* well-formed 200 response
LinkAndEndpointGood ==
  wifi = WL_CONNECTED /\ (attempt = "get" => WellFormed(resp))

\* a sample has been taken and the mode is the classification of its distance
SampleApplied ==
  /\ AfterSampler /\ attempt = "get" /\ WellFormed(resp)
  /\ dist >= 0 /\ ledMode = Classify(dist) /\ ledMode # 0

\* C15: if from some point on the link stays up and every request returns a
\* well-formed 200 response, then, whatever link losses, reconnection
\* timeouts and failed samples came before, samples keep being taken and the
\* mode is the classification of the sample's distance, hence not OFF.
C15_EventualRecovery == <>[]LinkAndEndpointGood => []<>SampleApplied

\* the link had gone down, a request had failed with the mode still OFF, and
\* the next sample was classified
C15_Witness ==
  /\ live /\ drops >= 1 /\ prevGetAt # -1 /\ modeBefore = 0
  /\ pc = "delay" /\ SampleApplied

\* a GET is issued in this step
GetIssued == lastGetAt' # lastGetAt

\* the sampler runs in this step, with or without link
SamplerRuns == attempt = "none" /\ attempt' # "none"

\* C16: a GET is issued only by an iteration whose sample deadline has elapsed,
\* with the link up at that moment, and at most once in the iteration; when
\* the deadline has elapsed with the link down no GET is issued, lastISSCheck
\* is still set to the iteration's currentMillis, and every run of the sampler
\* comes a full period after the previous one.
C16_SamplerNoRetry ==
  /\ [][GetIssued =>
          /\ pc = "isscheck" /\ attempt = "none" /\ attempt' = "get"
          /\ SampleDue(currentMillis, lastISSCheck)
          /\ wifi = WL_CONNECTED]_vars
  /\ [][(pc = "isscheck" /\ pc' = "leds" /\ wifi # WL_CONNECTED
           /\ SampleDue(currentMillis, lastISSCheck)) =>
          /\ ~GetIssued /\ attempt' = "nolink"
          /\ lastISSCheck' = currentMillis]_vars
  /\ [][SamplerRuns =>
          /\ rtCur - gISS >= CHECK_ISS_INTERVAL
          /\ gISS' = rtCur /\ lastISSCheck' = currentMillis]_vars
  /\ [](attempt # "none" => lastISSCheck = currentMillis)

\* the first sample found the link down; the first GET came with a later
\* iteration, a period or more after it
C16_Witness ==
  /\ boot = CHECK_ISS_INTERVAL /\ ~live /\ ~exact /\ iter >= 1
  /\ pc = "delay" /\ attempt = "get" /\ prevGetAt = -1
  /\ lastGetCur - boot >= CHECK_ISS_INTERVAL

\* the state of the lamp driver: blink phase, time of the last advance, outputs
LampState == <<currentLEDState, lastLEDUpdate, red, green, blue>>

AdvanceDue ==
  ledMode \in {2, 3} /\ Elapsed(now, lastLEDUpdate) >= BlinkPeriod(ledMode)

\* C18: the blink phase and lastLEDUpdate change only in a lamp tick whose mode
\* is APPROACHING or NEAR and for which now - lastLEDUpdate (modular) is at
\* least the mode's blink period; the tick then sets lastLEDUpdate to now and
\* inverts the phase; a tick in OFF or FAR, or with less than the period
\* elapsed, changes neither.
C18_BlinkAdvanceRule ==
  /\ [][(currentLEDState' # currentLEDState \/ lastLEDUpdate' # lastLEDUpdate) =>
          /\ pc = "leds" /\ AdvanceDue
          /\ lastLEDUpdate' = now
          /\ currentLEDState' = 1 - currentLEDState]_vars
  /\ [][(pc = "leds" /\ AdvanceDue) =>
          /\ lastLEDUpdate' = now
          /\ currentLEDState' = 1 - currentLEDState]_vars
  /\ [][(pc = "leds" /\ ~AdvanceDue) =>
          /\ lastLEDUpdate' = lastLEDUpdate
          /\ currentLEDState' = currentLEDState]_vars

\* a tick in NEAR has just advanced the phase, for the second time or later
C18_Witness ==
  /\ pc = "delay" /\ ledMode = 3 /\ ~live /\ gLED = rt
  /\ lastLEDUpdate = now /\ currentLEDState = 0

\* the level of the output that blinks in the current mode
BlinkLevel == Blinker(ledMode, Lamp)

\* the lamp tick advances the blink phase in this step
PhaseAdvance == pc = "leds" /\ currentLEDState' # currentLEDState

\* C19 as stated: every advance of the blink phase changes the level of the
\* blinking output (blue in APPROACHING, green in NEAR), whatever mode changes
\* came before, and after each lamp tick that level equals the blink phase.
C19_AdvanceToggles ==
  /\ [][PhaseAdvance => BlinkLevel' # BlinkLevel]_vars
  /\ []((pc = "delay" /\ ledMode \in {2, 3}) => BlinkLevel = currentLEDState)

\* C19 amended: every advance of the blink phase writes the new phase to the
\* blinking output, so that the level equals the phase after it; the advance
\* changes the level if the level equalled the phase before it, which is so
\* from the first level change in the current mode on.  (The first advance
\* after a change of mode may leave the level as it was.)
C19_AdvanceWritesPhase ==
  /\ [][PhaseAdvance => BlinkLevel' = currentLEDState']_vars
  /\ [][(PhaseAdvance /\ BlinkLevel = currentLEDState) =>
          BlinkLevel' # BlinkLevel]_vars
  /\ []((ledMode \in {2, 3} /\ winToggles >= 1) => BlinkLevel = currentLEDState)

\* APPROACHING had left the phase at 1; the first advance in NEAR took the
\* phase to 0 and wrote it to the green output, which was low already
C19_Witness ==
  /\ pc = "delay" /\ ~live /\ modeBefore = 2 /\ ledMode = 3
  /\ gLED = rt /\ lastLEDUpdate = now
  /\ currentLEDState = 0 /\ green = LOW /\ winToggles = 0

\* the link check runs in this step
LinkCheckRuns == gWiFi' # gWiFi \/ lastWiFiCheck' # lastWiFiCheck

\* the sampler's deadline is taken in this step
SampleTaskRuns == gISS' # gISS \/ lastISSCheck' # lastISSCheck

\* C20: each periodic task runs at most once in an iteration; when it runs its
\* timestamp becomes the now the iteration read (currentMillis), and a full
\* period of time has passed since the iteration of its previous run, however
\* long the reconnection, the request or the host blocked the loop in between;
\* an iteration that follows within less than a period does not run it.
C20_NoCatchUp ==
  /\ [][LinkCheckRuns =>
          /\ pc = "loop" /\ pc' = "ensure"
          /\ rt - gWiFi >= WIFI_CHECK_INTERVAL
          /\ currentMillis' = now /\ lastWiFiCheck' = now /\ gWiFi' = rt]_vars
  /\ [][SampleTaskRuns =>
          /\ pc = "isscheck" /\ pc' = "leds" /\ attempt = "none"
          /\ rtCur - gISS >= CHECK_ISS_INTERVAL
          /\ lastISSCheck' = currentMillis /\ gISS' = rtCur]_vars
  /\ [][(pc = "loop" /\ rt - gWiFi < WIFI_CHECK_INTERVAL) => pc' # "ensure"]_vars
  /\ [][(pc = "isscheck" /\ rtCur - gISS < CHECK_ISS_INTERVAL) =>
          (attempt' = "none" /\ ~GetIssued)]_vars
  /\ [](entryLink # "none" => lastWiFiCheck = currentMillis /\ gWiFi = rtCur)

\* the host kept the CPU for four link-check periods after the first
\* iteration; the second iteration ran the link check once, and the third,
\* 10 ms later, does not run it
C20_Witness ==
  /\ ~live /\ ~exact /\ iter = 2 /\ pc = "isscheck" /\ entryLink = "none"
  /\ lastGetCur = boot
  /\ gWiFi - lastGetCur >= 2 * WIFI_CHECK_INTERVAL
  /\ rtCur > gWiFi /\ rtCur - gWiFi < WIFI_CHECK_INTERVAL

====
